---- MODULE Spec2Model ----
(***************************************************************************)
(* The resurfacing and pattern-learning engine of the CLAW backend:        *)
(* strike recording, the pattern-based relevance scorer, context-triggered *)
(* surfacing, the claw lifecycle (strike, release, extend) and the merge   *)
(* of duplicates.                                                          *)
(*                                                                         *)
(* Conventions of the model                                                *)
(*  - Time is a count of whole hours since a Monday 00:00 UTC; a nullable  *)
(*    timestamp that is NULL is NONE.                                      *)
(*  - Scores are kept in hundredths (0.5 is 50).  The sums the code forms  *)
(*    in binary floating point (0.5 + 0.2 + 0.2 gives 0.8999999999999999)  *)
(*    differ from the decimal value by less than 1e-15 and never cross a   *)
(*    comparison the code makes, and n * 0.3 compares with an integer      *)
(*    count exactly as 3n/10 does for every n up to 5000.                  *)
(*  - A position is a point on a line, in metres; the great-circle         *)
(*    distance is the absolute difference.  NONE is "no coordinates".      *)
(*  - The free text of a claw is not modelled; content is the sequence of  *)
(*    merge markers appended to the original text, each marker being the   *)
(*    number it prints.                                                    *)
(***************************************************************************)
EXTENDS Integers, Sequences, FiniteSets, TLC

VARIABLES
    claws,      \* the claws table: claw id -> row
    strikes,    \* the strike_patterns table, in insertion order
    users,      \* the users table: user id -> row
    group_claws,\* the group_claws table: group item id -> row
    now,        \* datetime.utcnow(), in hours
    sessions,   \* requests in flight: request id -> ORM session state
    response    \* what the last finished request returned to its caller

vars == <<claws, strikes, users, group_claws, now, sessions, response>>

(***************************************************************************)
(* Bounds                                                                  *)
(***************************************************************************)
MaxHist == 4        \* longest strike history drawn for the scorer

(***************************************************************************)
(* Values                                                                  *)
(***************************************************************************)
NONE == -1

NullCategory == "null"

Users == {"u1", "u2"}

Hours == 0..23

Days == 0..6

Max(a, b) == IF a > b THEN a ELSE b

Min(a, b) == IF a < b THEN a ELSE b

Abs(x) == IF x < 0 THEN -x ELSE x

weekday(t) == (t \div 24) % 7

hour_of(t) == t % 24

(***************************************************************************)
(* Location registry and nearest-store lookup                              *)
(***************************************************************************)
\* Four entries of the registry, keeping its shape: two chains at the very
\* same coordinates (Bonus Laugavegur and Netto Laugavegur), others apart.
ICELANDIC_STORES ==
    << [chain |-> "bonus",   pos |-> 1000],
       [chain |-> "netto",   pos |-> 1000],
       [chain |-> "kronan",  pos |-> 1900],
       [chain |-> "hagkaup", pos |-> 5000] >>

haversine(p, q) == Abs(p - q)

StoreRadius == 500

is_nearer_or_as_near(dist, min_dist) ==
    dist < StoreRadius /\ (min_dist = NONE \/ dist <= min_dist)

\* if dist < 500 and dist < min_dist
is_nearer(dist, min_dist) ==
    dist < StoreRadius /\ (min_dist = NONE \/ dist < min_dist)

RECURSIVE nearest_scan(_, _, _, _)
nearest_scan(p, i, nearest, min_dist) ==
    IF i > Len(ICELANDIC_STORES) THEN nearest
    ELSE LET dist == haversine(p, ICELANDIC_STORES[i].pos)
         IN  IF is_nearer(dist, min_dist)
             THEN nearest_scan(p, i + 1, ICELANDIC_STORES[i].chain, dist)
             ELSE nearest_scan(p, i + 1, nearest, min_dist)

\* min_dist = NONE stands for float('inf')
_find_nearest_store(p) == nearest_scan(p, 1, "none", NONE)

(***************************************************************************)
(* The claw row                                                            *)
(***************************************************************************)
is_expired(claw, t) == t > claw.expires_at

(***************************************************************************)
(* The pattern-based relevance scorer                                      *)
(***************************************************************************)
DayAbbrev_full_names ==
    <<"Monday", "Tuesday", "Wednesday", "Thursday", "Friday", "Saturday", "Sunday">>

\* ['Mon','Tue','Wed','Thu','Fri','Sat','Sun']
DayAbbrev == <<"Mon", "Tue", "Wed", "Thu", "Fri", "Sat", "Sun">>

\* {claw.category} in an f-string: None is printed as "None"
category_text(category) == IF category = NullCategory THEN "None" ELSE category

clamp_unit_unclamped(score) == score

clamp_unit(score) == Min(100, Max(0, score))

expiry_penalty_smaller(score) == Max(10, score - 20)

expiry_penalty(score) == Max(10, score - 30)

no_pattern_default_boosted(claw) ==
    IF claw.category \in {"product", "restaurant"}
    THEN [score |-> 60 + (IF claw.is_priority THEN 10 ELSE 0),
          reason |-> << <<"Shopping item - check when near stores">> >>]
    ELSE [score |-> 50 + (IF claw.is_priority THEN 10 ELSE 0),
          reason |-> << <<"No pattern data yet">> >>]

\* "No pattern data - use defaults": the early return on an empty history
no_pattern_default(claw) ==
    IF claw.category \in {"product", "restaurant"}
    THEN [score |-> 60, reason |-> << <<"Shopping item - check when near stores">> >>]
    ELSE [score |-> 50, reason |-> << <<"No pattern data yet">> >>]

\* "lat and lng" as a condition: both are given and neither is 0.0; the
\* position 0 stands for coordinates with a zero
has_coordinates(pos) == pos # NONE /\ pos # 0

location_categories_and_book == {"product", "restaurant", "task", "book"}

\* claw.category in ["product", "restaurant", "task"]
location_categories == {"product", "restaurant", "task"}

within_two_hours_around_midnight(hour_of_day, current_hour) ==
    Min(Abs(hour_of_day - current_hour), 24 - Abs(hour_of_day - current_hour)) <= 2

\* abs(p.hour_of_day - current_hour) <= 2
within_two_hours(hour_of_day, current_hour) == Abs(hour_of_day - current_hour) <= 2

priority_boost_doubled(score) == score + 20

\* score += 0.1 for a priority claw
priority_boost(score) == score + 10

exceeds_share_inclusive(matches, total) == matches * 10 >= total * 3

\* matches > len(patterns) * 0.3: more than 30% of the strikes match
exceeds_share(matches, total) == matches * 10 > total * 3

\* score and reasons after the day rule, the hour rule, the location rule,
\* the priority boost and the expiry penalty, applied in that order
_calculate_resurface_score_with_patterns(claw, patterns, current_pos, current_hour, current_dow, t) ==
    IF Len(patterns) = 0
    THEN no_pattern_default(claw)
    ELSE
    LET n == Len(patterns)
        dow_matches == Cardinality({i \in DOMAIN patterns :
                            patterns[i].day_of_week = current_dow})
        hour_matches == Cardinality({i \in DOMAIN patterns :
                            within_two_hours(patterns[i].hour_of_day, current_hour)})
        day_hit == exceeds_share(dow_matches, n)
        hour_hit == exceeds_share(hour_matches, n)
        near_store == IF has_coordinates(current_pos) /\ claw.category \in location_categories
                      THEN _find_nearest_store(current_pos) ELSE "none"
        store_matches == Cardinality({i \in DOMAIN patterns :
                            patterns[i].near_store = near_store})
        store_hit == near_store # "none" /\ store_matches > 0
        s0 == 50
        s1 == IF day_hit THEN s0 + 20 ELSE s0
        r1 == IF day_hit
              THEN << <<"You often strike", category_text(claw.category), "items on",
                       DayAbbrev[current_dow + 1]>> >>
              ELSE << >>
        s2 == IF hour_hit THEN s1 + 20 ELSE s1
        r2 == IF hour_hit THEN Append(r1, <<"Good time of day for you">>) ELSE r1
        s3 == IF store_hit THEN s2 + 30 ELSE s2
        r3 == IF store_hit THEN Append(r2, <<"You're near", near_store, "!">>) ELSE r2
        s4 == IF claw.is_priority THEN priority_boost(s3) ELSE s3
        r4 == IF claw.is_priority THEN Append(r3, <<"VIP item">>) ELSE r3
        s5 == IF is_expired(claw, t) THEN expiry_penalty(s4) ELSE s4
        r5 == IF is_expired(claw, t) THEN Append(r4, <<"Expiring soon!">>) ELSE r4
    IN  [score |-> clamp_unit(s5),
         reason |-> IF Len(r5) > 0 THEN r5 ELSE << <<"Based on your patterns">> >>]

\* the rows of strike_patterns for one user and one category
query_patterns(db, user_id, category) ==
    LET Mine(p) == p.user_id = user_id /\ p.category = category
    IN  SelectSeq(db, Mine)

\* The database-backed scorer: it fetches the history of the claw's owner
\* and category and then applies, line for line, the rules above.
calculate_resurface_score(db, claw, current_pos, current_hour, current_dow, t) ==
    _calculate_resurface_score_with_patterns(
        claw, query_patterns(db, claw.user_id, claw.category),
        current_pos, current_hour, current_dow, t)

(***************************************************************************)
(* Ranking of a user's active claws                                        *)
(***************************************************************************)
RECURSIVE ids_in_order(_)
ids_in_order(S) ==
    IF S = {} THEN << >>
    ELSE LET m == CHOOSE x \in S : \A y \in S : x <= y
         IN  <<m>> \o ids_in_order(S \ {m})

\* list.sort(key=score, reverse=True): descending and stable
RECURSIVE sort_by_score_desc(_)
sort_by_score_desc(seq) ==
    IF Len(seq) <= 1 THEN seq
    ELSE LET x == seq[Len(seq)]
             rest == sort_by_score_desc(SubSeq(seq, 1, Len(seq) - 1))
             k == Cardinality({i \in DOMAIN rest : rest[i].score >= x.score})
         IN  SubSeq(rest, 1, k) \o <<x>> \o SubSeq(rest, k + 1, Len(rest))

Truncate_one_more(seq, limit) == SubSeq(seq, 1, Min(limit + 1, Len(seq)))

\* seq[:limit]
Truncate(seq, limit) == SubSeq(seq, 1, Min(limit, Len(seq)))

(***************************************************************************)
(* The pattern summary of a user                                           *)
(***************************************************************************)
DayNames == <<"Monday", "Tuesday", "Wednesday", "Thursday", "Friday", "Saturday", "Sunday">>

\* the values of keys, each once, in the order of their first occurrence
RECURSIVE first_seen(_)
first_seen(keys) ==
    IF Len(keys) = 0 THEN << >>
    ELSE LET rest == first_seen(SubSeq(keys, 1, Len(keys) - 1))
             k == keys[Len(keys)]
         IN  IF \E i \in DOMAIN rest : rest[i] = k THEN rest ELSE Append(rest, k)

most_common_last_seen(keys, n) ==
    LET rev == [i \in DOMAIN keys |-> keys[Len(keys) + 1 - i]]
        seen == first_seen(rev)
        counted == [i \in DOMAIN seen |->
                      [key |-> seen[i],
                       score |-> Cardinality({j \in DOMAIN keys : keys[j] = seen[i]})]]
    IN  Truncate(sort_by_score_desc(counted), n)

\* Counter(keys).most_common(n): the n most frequent values with their
\* counts, equal counts in the order of first occurrence
most_common(keys, n) ==
    LET seen == first_seen(keys)
        counted == [i \in DOMAIN seen |->
                      [key |-> seen[i],
                       score |-> Cardinality({j \in DOMAIN keys : keys[j] = seen[i]})]]
    IN  Truncate(sort_by_score_desc(counted), n)

RECURSIVE sum_of(_)
sum_of(seq) == IF Len(seq) = 0 THEN 0 ELSE seq[1] + sum_of(Tail(seq))

\* round(total / n, 1) in tenths; a quotient that ends in 5 hundredths is a
\* binary fraction when n is below 20 and Python rounds it to the even tenth
round_tenths(total, n) ==
    LET q == (10 * total) \div n
        r == (10 * total) % n
    IN  IF 2 * r < n THEN q
        ELSE IF 2 * r > n THEN q + 1
        ELSE IF q % 2 = 0 THEN q ELSE q + 1

\* PatternAnalyzer.get_user_patterns; no category filter is NullCategory and
\* the empty dict is the empty record
get_user_patterns(db, user_id, category) ==
    LET Mine(p) == p.user_id = user_id /\ (category = NullCategory \/ p.category = category)
        patterns == SelectSeq(db, Mine)
        Near(p) == p.near_store # "none"
        store_patterns == SelectSeq(patterns, Near)
        days == most_common([i \in DOMAIN patterns |-> patterns[i].day_of_week], 3)
    IN  IF Len(patterns) = 0 THEN << >>
        ELSE [peak_days |-> [i \in DOMAIN days |->
                               [key |-> DayNames[days[i].key + 1], score |-> days[i].score]],
              peak_hours |-> most_common([i \in DOMAIN patterns |-> patterns[i].hour_of_day], 3),
              preferred_stores |->
                  most_common([i \in DOMAIN store_patterns |-> store_patterns[i].near_store], 3),
              avg_time_to_strike_hours |->
                  round_tenths(sum_of([i \in DOMAIN patterns |->
                                          patterns[i].time_to_strike_hours]), Len(patterns)),
              total_recorded |-> Len(patterns)]

get_smart_surface_list(tbl, db, user_id, pos, limit, t) ==
    LET active == ids_in_order({c \in DOMAIN tbl :
                      tbl[c].user_id = user_id /\ tbl[c].status = "active"})
        all_categories == {tbl[active[i]].category : i \in DOMAIN active} \ {NullCategory}
        Wanted(p) == p.user_id = user_id /\ p.category \in all_categories
        all_patterns == IF all_categories = {} THEN << >> ELSE SelectSeq(db, Wanted)
        patterns_by_category(cat) ==
            LET Same(p) == p.category = cat IN SelectSeq(all_patterns, Same)
        scored == [i \in DOMAIN active |->
                     LET r == _calculate_resurface_score_with_patterns(
                                  tbl[active[i]], patterns_by_category(tbl[active[i]].category),
                                  pos, hour_of(t), weekday(t), t)
                     IN  [claw |-> active[i], score |-> r.score, reason |-> r.reason]]
    IN  Truncate(sort_by_score_desc(scored), limit)

(***************************************************************************)
(* Rows as the constructors of the code create them                        *)
(***************************************************************************)
NewClaw(user_id, category, created_at, expires_at) ==
    [user_id |-> user_id, category |-> category, status |-> "active",
     is_priority |-> FALSE, tags |-> {}, content |-> << >>,
     created_at |-> created_at, expires_at |-> expires_at, completed_at |-> NONE,
     last_surfaced_at |-> NONE, surface_count |-> 0,
     app_trigger |-> "none", time_context |-> "none",
     location |-> NONE, location_radius_meters |-> 100]

NewUser ==
    [total_claws_completed |-> 0, current_streak_days |-> 0,
     longest_streak_days |-> 0, last_strike_date |-> NONE,
     streak_freezes_available |-> 1, streak_freezes_used_this_month |-> 0,
     streak_freeze_reset_date |-> NONE, streak_recovery_available |-> TRUE]

StrikeRow(user_id, claw_id, category, struck_at, near_store, was_expired, time_to_strike) ==
    [user_id |-> user_id, claw_id |-> claw_id, category |-> category,
     struck_at |-> struck_at, day_of_week |-> weekday(struck_at),
     hour_of_day |-> hour_of(struck_at), near_store |-> near_store,
     was_expired |-> was_expired, time_to_strike_hours |-> time_to_strike]

(***************************************************************************)
(* The scorer on drawn inputs                                              *)
(***************************************************************************)
NowScore == 418             \* a Thursday, 10:00

ScoreCategories == {"product", "restaurant", "task", "book", NullCategory}

ScorePositions == {NONE, 0, 1100, 1500, 3000}

\* A history of n strikes of user u in category cat: the first a on the
\* current weekday (the others three days earlier), the last b at the current
\* hour (the others at 23:00), the first c near the store "bonus"; f = 1 puts
\* in front a strike of the same user in another category and a strike of
\* another user in the same category.
History(u, cat, n, a, b, c, f) ==
    LET own == [i \in 1..n |->
                  StrikeRow(u, 100 + i, cat,
                            (IF i <= a THEN NowScore - 168 ELSE NowScore - 240)
                              + (IF i > n - b THEN 0 ELSE 13),
                            IF i <= c THEN "bonus" ELSE "none", 0, 5)]
        other == IF f = 1
                 THEN << StrikeRow(u, 99, "movie", NowScore - 168, "bonus", 0, 5),
                         StrikeRow("u2", 100, cat, NowScore - 168, "bonus", 0, 5) >>
                 ELSE << >>
    IN  other \o own

ScoreHours == {0, 7, 8, 12, 13, 21, 23}

ScoreDays == Days

\* the requests drawn for the scorer: one is pending in each initial state
ScoreRequests ==
    [op : {"score"}, claw : {1}, pos : ScorePositions, hour : ScoreHours, dow : ScoreDays]
    \cup [op : {"rank"}, user : Users, pos : ScorePositions, limit : 1..2]

ScoreInit ==
    \E n \in 0..MaxHist, cat \in ScoreCategories, pri \in BOOLEAN,
       exp \in {NowScore - 1, NowScore + 24}, f \in 0..1, req \in ScoreRequests :
      \E a \in 0..n, b \in 0..n, c \in 0..Min(n, 1) :
        /\ claws = [k \in {1} |->
                      [NewClaw("u1", cat, NowScore - 30, exp) EXCEPT !.is_priority = pri]]
        /\ strikes = History("u1", cat, n, a, b, c, f)
        /\ users = [u \in Users |-> NewUser]
        /\ group_claws = << >>
        /\ now = NowScore
        /\ sessions = <<req>>
        /\ response = [op |-> "none"]

\* POST /ai/score-claw/{id} and the scorer call of strike_claw
ScoreSingle(req) ==
    LET r == calculate_resurface_score(strikes, claws[req.claw], req.pos, req.hour, req.dow, now)
    IN  /\ req.op = "score"
        /\ response' = [op |-> "score", req |-> req, score |-> r.score, reason |-> r.reason]
        /\ sessions' = << >>
        /\ UNCHANGED <<claws, strikes, users, group_claws, now>>

\* GET /ai/smart-surface
SmartSurface(req) ==
    /\ req.op = "rank"
    /\ response' = [op |-> "rank", req |-> req,
                    items |-> get_smart_surface_list(claws, strikes, req.user, req.pos,
                                                     req.limit, now)]
    /\ sessions' = << >>
    /\ UNCHANGED <<claws, strikes, users, group_claws, now>>

ScoreNext ==
    \/ \E i \in DOMAIN sessions : ScoreSingle(sessions[i])
    \/ \E i \in DOMAIN sessions : SmartSurface(sessions[i])

SpecScore == ScoreInit /\ [][ScoreNext]_vars

(***************************************************************************)
(* The scorer on longer histories: up to MaxEvents strikes of tasks, a of  *)
(* them on a Thursday and b of them at 10:00, scored without a position    *)
(***************************************************************************)
MaxEvents == 10     \* the longest history drawn for the share rules

ShareRequests ==
    [op : {"score"}, claw : {1}, pos : {NONE}, hour : {10, 20}, dow : {3, 4}]

ShareInit ==
    \E n \in 1..MaxEvents, pri \in BOOLEAN, exp \in {NowScore - 1, NowScore + 24},
       req \in ShareRequests :
      \E a \in 0..n, b \in 0..n :
        /\ claws = [k \in {1} |->
                      [NewClaw("u1", "task", NowScore - 30, exp) EXCEPT !.is_priority = pri]]
        /\ strikes = History("u1", "task", n, a, b, 0, 0)
        /\ users = [u \in Users |-> NewUser]
        /\ group_claws = << >>
        /\ now = NowScore
        /\ sessions = <<req>>
        /\ response = [op |-> "none"]

ShareNext == \E i \in DOMAIN sessions : ScoreSingle(sessions[i])

SpecShare == ShareInit /\ [][ShareNext]_vars

(***************************************************************************)
(* Context-triggered surfacing                                             *)
(***************************************************************************)
MaxSurface == 5     \* surfacing stops being explored at this surface_count

MaxSurfTime == 13   \* the clock of the surfacing runs stops here

SurfStart == 8      \* a Monday, 08:00

\* needle in hay, for the lower-cased application names of the model
Contains(hay, needle) ==
    \/ hay = needle
    \/ <<hay, needle>> \in {<<"amazon shopping", "amazon">>}

_haversine_distance(p, q) == Abs(p - q)

\* "error" is the TypeError of unpacking time_ranges["weekend"], which is None
_check_time_context(time_context, current_hour) ==
    CASE time_context = "morning" -> (6 <= current_hour /\ current_hour < 12)
      [] time_context = "afternoon" -> (12 <= current_hour /\ current_hour < 17)
      [] time_context = "evening" -> (17 <= current_hour /\ current_hour < 22)
      [] time_context = "night" -> (current_hour >= 22 \/ current_hour < 6)
      [] OTHER -> FALSE

SetMax(S) == CHOOSE x \in S : \A y \in S : y <= x

\* the engine's score: the maximum of the collected scores
relevance_max(scores) == IF scores = {} THEN 0 ELSE SetMax(scores)

_calculate_relevance_score(claw, context, t) ==
    LET location_match ==
            /\ claw.location # NONE
            /\ context.location # NONE
            /\ _haversine_distance(claw.location, context.location)
                   <= claw.location_radius_meters
        time_match ==
            /\ claw.time_context # "none"
            /\ _check_time_context(claw.time_context, hour_of(t))
        app_match ==
            /\ claw.app_trigger # "none"
            /\ context.active_app # "none"
            /\ Contains(context.active_app, claw.app_trigger)
        over_surfaced == claw.surface_count > 3
        shown_recently == claw.last_surfaced_at # NONE /\ t - claw.last_surfaced_at < 4
        scores == (IF location_match THEN {90} ELSE {})
                  \cup (IF time_match THEN {70} ELSE {})
                  \cup (IF app_match THEN {100} ELSE {})
                  \cup (IF over_surfaced THEN {10} ELSE {})
                  \cup (IF shown_recently THEN {0} ELSE {})
    IN  relevance_max(scores)

\* last_surfaced_at = utcnow(), surface_count += 1 on the claws of ids
mark_surfaced(tbl, ids, t) ==
    [c \in DOMAIN tbl |->
        IF c \in ids
        THEN [tbl[c] EXCEPT !.last_surfaced_at = t, !.surface_count = @ + 1]
        ELSE tbl[c]]

SeqRange(seq) == {seq[i] : i \in DOMAIN seq}

\* the claws both surfacing reads select
surfacing_candidates(tbl, user_id, t) ==
    ids_in_order({c \in DOMAIN tbl : /\ tbl[c].user_id = user_id
                                     /\ tbl[c].status = "active"
                                     /\ tbl[c].expires_at > t})

above_threshold_inclusive(score) == score >= 70

\* if score > 0.7: the threshold of both surfacing passes
above_threshold(score) == score > 70

\* ResurfacingEngine.check_and_resurface
CheckAndResurface(user_id, context) ==
    LET cand == surfacing_candidates(claws, user_id, now)
        scored == [i \in DOMAIN cand |->
                     [claw |-> cand[i],
                      score |-> _calculate_relevance_score(claws[cand[i]], context, now)]]
        Passes(x) == above_threshold(x.score)
        to_surface == Truncate(sort_by_score_desc(SelectSeq(scored, Passes)), 3)
        ids == {to_surface[i].claw : i \in DOMAIN to_surface}
    IN  /\ \A c \in ids : claws[c].surface_count < MaxSurface
        /\ claws' = mark_surfaced(claws, ids, now)
        /\ response' = [op |-> "resurface", user |-> user_id, at |-> now,
                        items |-> to_surface]
        /\ UNCHANGED <<strikes, users, group_claws, now, sessions>>

\* the claws GET /claws/surface selects from the rows it loaded: the three
\* best of those scoring above 0.7; jitter[c] is the random.uniform(-0.1, 0.1)
\* drawn for c
surface_selection(tbl, user_id, active_app, jitter, t) ==
    LET cand == surfacing_candidates(tbl, user_id, t)
        scored == [i \in DOMAIN cand |->
                     [claw |-> cand[i],
                      score |-> (IF /\ active_app # "none"
                                    /\ tbl[cand[i]].app_trigger # "none"
                                    /\ Contains(tbl[cand[i]].app_trigger, active_app)
                                 THEN 100 ELSE 50) + jitter[cand[i]]]]
        Passes(x) == above_threshold(x.score)
    IN  Truncate(sort_by_score_desc(SelectSeq(scored, Passes)), 3)

\* GET /claws/surface
GetSurfaceClaws(user_id, active_app, jitter) ==
    LET scored_claws == surface_selection(claws, user_id, active_app, jitter, now)
        ids == {scored_claws[i].claw : i \in DOMAIN scored_claws}
    IN  /\ \A c \in ids : claws[c].surface_count < MaxSurface
        /\ claws' = mark_surfaced(claws, ids, now)
        /\ response' = [op |-> "surface", user |-> user_id, at |-> now,
                        items |-> scored_claws]
        /\ UNCHANGED <<strikes, users, group_claws, now, sessions>>

\* an hour passes
SurfTick ==
    /\ now < MaxSurfTime
    /\ now' = now + 1
    /\ UNCHANGED <<claws, strikes, users, group_claws, sessions, response>>

Apps == {"none", "amazon", "amazon shopping"}

Jitters == {-10, 10}

SurfContexts == [location : {NONE, 1050}, active_app : Apps]

\* claw 1 is triggered by an application, claw 2 by a place and a time of day
SurfInit ==
    /\ claws = [c \in {1, 2} |->
                  IF c = 1
                  THEN [NewClaw("u1", "product", 0, 168) EXCEPT !.app_trigger = "amazon"]
                  ELSE [NewClaw("u1", "task", 0, 168) EXCEPT
                            !.location = 1000, !.time_context = "morning"]]
    /\ strikes = << >>
    /\ users = [u \in Users |-> NewUser]
    /\ group_claws = << >>
    /\ now = SurfStart
    /\ sessions = << >>
    /\ response = [op |-> "none"]

SurfNext ==
    \/ \E u \in Users, context \in SurfContexts : CheckAndResurface(u, context)
    \/ \E u \in Users, app \in Apps, jitter \in [DOMAIN claws -> Jitters] :
          GetSurfaceClaws(u, app, jitter)
    \/ SurfTick

SpecSurf == SurfInit /\ [][SurfNext]_vars

(***************************************************************************)
(* The surfacing passes on drawn tables: MaxCandidates claws of u1, each   *)
(* triggered by an application, by a place, by the morning or by nothing,  *)
(* and each surfaced MaxSurface - 1 times on earlier days                  *)
(***************************************************************************)
MaxCandidates == 4  \* the active claws of the user of the passes

TriggerKinds == {"app", "place", "morning", "nothing"}

TriggeredClaw(kind) ==
    CASE kind = "app" -> [NewClaw("u1", "product", 0, 168) EXCEPT !.app_trigger = "amazon"]
      [] kind = "place" -> [NewClaw("u1", "product", 0, 168) EXCEPT !.location = 1000]
      [] kind = "morning" -> [NewClaw("u1", "task", 0, 168) EXCEPT !.time_context = "morning"]
      [] OTHER -> NewClaw("u1", "task", 0, 168)

PassInit ==
    \E kind \in [1..MaxCandidates -> TriggerKinds] :
        /\ claws = [c \in 1..MaxCandidates |->
                      [TriggeredClaw(kind[c]) EXCEPT !.surface_count = MaxSurface - 1,
                                                     !.last_surfaced_at = 0]]
        /\ strikes = << >>
        /\ users = [u \in Users |-> NewUser]
        /\ group_claws = << >>
        /\ now = SurfStart
        /\ sessions = << >>
        /\ response = [op |-> "none"]

PassNext ==
    \/ \E context \in [location : {NONE, 1050}, active_app : {"none", "amazon"}] :
          CheckAndResurface("u1", context)
    \/ \E jitter \in [DOMAIN claws -> Jitters] : GetSurfaceClaws("u1", "amazon", jitter)

SpecPass == PassInit /\ [][PassNext]_vars

(***************************************************************************)
(* The claw lifecycle: strike, release, extend, merge                      *)
(***************************************************************************)
MaxStrikes == 2     \* strikes are explored until the log holds this many rows

MaxMarkers == 2     \* merges are explored until the contents hold this many markers

MaxExpiry == 210    \* extend is explored while the new expiry is at most this

LifeStart == 10     \* a Monday, 10:00

find_claw_any_owner(tbl, claw_id, user_id) ==
    IF claw_id \in DOMAIN tbl THEN claw_id ELSE NONE

\* db.query(Claw).filter(Claw.id == id, Claw.user_id == user).first()
find_claw(tbl, claw_id, user_id) ==
    IF claw_id \in DOMAIN tbl /\ tbl[claw_id].user_id = user_id THEN claw_id ELSE NONE

add_strike_latest_per_user(db, row) ==
    LET Others(p) == p.user_id # row.user_id IN Append(SelectSeq(db, Others), row)

\* db.add(pattern); db.commit(): the row is inserted after the rows there are
add_strike(db, row) == Append(db, row)

\* int(num / den) of Python for den > 0: the quotient without its fraction,
\* rounded towards zero
int_of_quotient(num, den) == IF num >= 0 THEN num \div den ELSE -((-num) \div den)

\* PatternAnalyzer.record_strike with the two instants in minutes: the row it
\* adds for a strike at minute now_min of a claw captured at minute
\* captured_min (NONE: no capture time)
record_strike_at(user_id, claw_id, category, captured_min, pos, now_min) ==
    StrikeRow(user_id, claw_id, category, now_min \div 60,
              IF has_coordinates(pos) THEN _find_nearest_store(pos) ELSE "none",
              IF captured_min # NONE /\ now_min > captured_min + 7 * 24 * 60 THEN 1 ELSE 0,
              IF captured_min # NONE THEN int_of_quotient(now_min - captured_min, 60) ELSE 0)

\* PatternAnalyzer.record_strike: the row it adds, both instants on the hour
record_strike(user_id, claw_id, category, captured_at, pos, t) ==
    record_strike_at(user_id, claw_id, category, 60 * captured_at, pos, 60 * t)

date_of(t) == t \div 24

\* User.update_streak
update_streak(user, t) ==
    LET days_diff == date_of(t) - date_of(user.last_strike_date)
        current == IF user.last_strike_date = NONE THEN 1
                   ELSE IF days_diff = 0 THEN user.current_streak_days
                   ELSE IF days_diff = 1 THEN user.current_streak_days + 1
                   ELSE 1
        longest == IF user.last_strike_date # NONE /\ days_diff = 1
                      /\ current > user.longest_streak_days
                   THEN current ELSE user.longest_streak_days
    IN  [user EXCEPT !.current_streak_days = current,
                     !.longest_streak_days = longest,
                     !.last_strike_date = t]

\* a handler that raised HTTPException before writing anything
Rejected(op, code) ==
    /\ response' = [op |-> op, code |-> code]
    /\ UNCHANGED <<claws, strikes, users, group_claws, now, sessions>>

\* POST /claws/{claw_id}/strike
StrikeClaw(user_id, claw_id, pos) ==
    LET c == find_claw(claws, claw_id, user_id)
    IN  IF c = NONE THEN Rejected("strike", 404)
        ELSE IF claws[c].status = "completed" THEN Rejected("strike", 400)
        ELSE
          /\ Len(strikes) < MaxStrikes
          /\ claws' = [claws EXCEPT ![c].status = "completed", ![c].completed_at = now]
          /\ strikes' = add_strike(strikes,
                                   record_strike(user_id, c, claws[c].category,
                                                 claws[c].created_at, pos, now))
          /\ users' = [users EXCEPT ![user_id] =
                          update_streak([@ EXCEPT !.total_claws_completed = @ + 1], now)]
          /\ response' = [op |-> "strike", code |-> 200]
          /\ UNCHANGED <<group_claws, now, sessions>>

\* POST /claws/{claw_id}/release
ReleaseClaw(user_id, claw_id) ==
    LET c == find_claw(claws, claw_id, user_id)
    IN  IF c = NONE THEN Rejected("release", 404)
        ELSE IF claws[c].status # "active" THEN Rejected("release", 400)
        ELSE
          /\ claws' = [claws EXCEPT ![c].status = "expired", ![c].expires_at = now]
          /\ response' = [op |-> "release", code |-> 200]
          /\ UNCHANGED <<strikes, users, group_claws, now, sessions>>

extended_expiry_from_capture(claw, days, t) == claw.created_at + 24 * days

\* (claw.expires_at or utcnow()) + timedelta(days=days)
extended_expiry(claw, days, t) ==
    (IF claw.expires_at = NONE THEN t ELSE claw.expires_at) + 24 * days

\* POST /claws/{claw_id}/extend
ExtendClaw(user_id, claw_id, days) ==
    LET c == find_claw(claws, claw_id, user_id)
    IN  IF c = NONE THEN Rejected("extend", 404)
        ELSE IF claws[c].status # "active" THEN Rejected("extend", 400)
        ELSE
          /\ claws[c].expires_at + 24 * days <= MaxExpiry
          /\ claws' = [claws EXCEPT ![c].expires_at = extended_expiry(claws[c], days, now)]
          /\ response' = [op |-> "extend", code |-> 200]
          /\ UNCHANGED <<strikes, users, group_claws, now, sessions>>

\* the rows Claw.id.in_(ids) selects for the user
merge_rows(tbl, user_id, merge_claw_ids) ==
    {c \in DOMAIN tbl : c \in SeqRange(merge_claw_ids) /\ tbl[c].user_id = user_id}

\* the union of the tags of the claws of ids
all_tags_of(tbl, ids) == UNION {tbl[c].tags : c \in ids}

latest_expiry_keep_only(tbl, keep, merged) == tbl[keep].expires_at

\* the latest expiry among keep and the merged claws
latest_expiry_of(tbl, keep, merged) ==
    SetMax({tbl[c].expires_at : c \in merged \cup {keep}})

merge_marker_counting_keep(content, merged_count) == Append(content, merged_count + 1)

\* content + "\n[Merged N similar items]"
merge_marker(content, merged_count) == Append(content, merged_count)

\* the number of merge markers in the contents of the table
RECURSIVE markers_in(_, _)
markers_in(tbl, ids) ==
    IF ids = {} THEN 0
    ELSE LET c == CHOOSE x \in ids : TRUE
         IN  Len(tbl[c].content) + markers_in(tbl, ids \ {c})

\* the claws table after a merge that passed validation
merged_table(tbl, keep, merged) ==
    [c \in DOMAIN tbl |->
        IF c = keep
        THEN [tbl[c] EXCEPT !.tags = all_tags_of(tbl, merged \cup {keep}),
                            !.expires_at = latest_expiry_of(tbl, keep, merged),
                            !.content = merge_marker(@, Cardinality(merged))]
        ELSE IF c \in merged THEN [tbl[c] EXCEPT !.status = "archived"]
        ELSE tbl[c]]

\* POST /claws/merge
MergeClaws(user_id, keep_claw_id, merge_claw_ids) ==
    LET keep == find_claw(claws, keep_claw_id, user_id)
        merged == merge_rows(claws, user_id, merge_claw_ids)
    IN  IF keep = NONE THEN Rejected("merge", 404)
        ELSE IF Cardinality(merged) # Len(merge_claw_ids)
             THEN Rejected("merge", 404)
        ELSE IF keep_claw_id \in SeqRange(merge_claw_ids)
             THEN Rejected("merge", 400)
        ELSE
          /\ markers_in(claws, DOMAIN claws) < MaxMarkers
          /\ claws' = merged_table(claws, keep, merged)
          /\ response' = [op |-> "merge", code |-> 200, claw |-> keep_claw_id,
                          merged_count |-> Cardinality(merged),
                          merged_ids |-> merge_claw_ids]
          /\ UNCHANGED <<strikes, users, group_claws, now, sessions>>

\* POST /groups/{group_id}/items/{group_claw_id}/strike, by a member of the group
StrikeGroupItem(user_id, g) ==
    IF g \notin DOMAIN group_claws THEN Rejected("group_strike", 404)
    ELSE IF group_claws[g].status = "completed" THEN Rejected("group_strike", 400)
    ELSE
      /\ group_claws' = [group_claws EXCEPT ![g].status = "completed"]
      /\ claws' = IF group_claws[g].claw_id \in DOMAIN claws
                  THEN [claws EXCEPT ![group_claws[g].claw_id].status = "completed",
                                     ![group_claws[g].claw_id].completed_at = now]
                  ELSE claws
      /\ response' = [op |-> "group_strike", code |-> 200]
      /\ UNCHANGED <<strikes, users, now, sessions>>

\* POST /ai/score-claw/{claw_id}: the hour and the day are those of the clock
ScoreSingleClaw(user_id, claw_id, pos) ==
    LET c == find_claw(claws, claw_id, user_id)
    IN  IF c = NONE THEN Rejected("score", 404)
        ELSE LET r == calculate_resurface_score(strikes, claws[c], pos,
                                                hour_of(now), weekday(now), now)
             IN  /\ response' = [op |-> "score", code |-> 200,
                                 score |-> r.score, reason |-> r.reason]
                 /\ UNCHANGED <<claws, strikes, users, group_claws, now, sessions>>

strike_queries_per_item(active, all_categories) == Len(active)

\* the SELECTs on strike_patterns one call of get_smart_surface_list issues:
\* the batched one, which is skipped when no active claw has a category
strike_queries(active, all_categories) == IF all_categories = {} THEN 0 ELSE 1

\* the SELECTs on strike_patterns of a ranking of the active claws of user_id
smart_surface_queries(tbl, user_id) ==
    LET active == ids_in_order({c \in DOMAIN tbl :
                      tbl[c].user_id = user_id /\ tbl[c].status = "active"})
        all_categories == {tbl[active[i]].category : i \in DOMAIN active} \ {NullCategory}
    IN  IF Len(active) = 0 THEN 0 ELSE strike_queries(active, all_categories)

\* GET /ai/smart-surface
RankActiveItems(user_id, pos, limit) ==
    LET items == get_smart_surface_list(claws, strikes, user_id, pos, limit, now)
    IN  /\ response' = [op |-> "rank", code |-> 200, limit |-> limit, user |-> user_id,
                        pos |-> pos,
                        items |-> items, total |-> Len(items),
                        strike_queries |-> smart_surface_queries(claws, user_id)]
        /\ UNCHANGED <<claws, strikes, users, group_claws, now, sessions>>

\* GET /ai/patterns
GetPatterns(user_id, category) ==
    /\ response' = [op |-> "patterns", code |-> 200, user |-> user_id, category |-> category,
                    patterns |-> get_user_patterns(strikes, user_id, category)]
    /\ UNCHANGED <<claws, strikes, users, group_claws, now, sessions>>

\* the ids a request can name: the caller's claws and a claw of another user
RequestIds == 1..4

\* the merge lists of the requests: up to two ids, an id twice included
MergeLists == {<< >>} \cup {<<a>> : a \in RequestIds}
                \cup {ids \in RequestIds \X RequestIds : ids[1] <= ids[2]}

\* the claws of the runs: 1, 2 and 3 belong to the caller u1, 4 to u2
FreshClaw(c) ==
    CASE c = 1 -> [NewClaw("u1", "product", 0, 180) EXCEPT !.tags = {"z"},
                                                              !.app_trigger = "amazon"]
      [] c = 2 -> [NewClaw("u1", "product", 0, 200) EXCEPT !.tags = {"x"}]
      [] c = 3 -> [NewClaw("u1", "task", 0, 190) EXCEPT !.tags = {"y"}]
      [] OTHER -> [NewClaw("u2", "task", 0, 220) EXCEPT !.tags = {"w"}]

\* claws 1 and 2 of u1 and claw 4 of u2 exist, id 3 is unknown; claw 2 is
\* also an item of a group u1 is a member of
Init ==
    /\ claws = [c \in {1, 2, 4} |-> FreshClaw(c)]
    /\ strikes = << >>
    /\ users = [u \in Users |-> NewUser]
    /\ group_claws = [g \in {1} |-> [claw_id |-> 2, status |-> "active"]]
    /\ now = LifeStart
    /\ sessions = << >>
    /\ response = [op |-> "none"]

Next ==
    \/ \E c \in RequestIds, pos \in {1100} : StrikeClaw("u1", c, pos)
    \/ \E c \in RequestIds : ReleaseClaw("u1", c)
    \/ \E c \in RequestIds : ExtendClaw("u1", c, 1)
    \/ \E keep \in RequestIds, ids \in MergeLists : MergeClaws("u1", keep, ids)
    \/ \E g \in {1, 2} : StrikeGroupItem("u1", g)
    \/ \E c \in RequestIds, pos \in {NONE, 1100} : ScoreSingleClaw("u1", c, pos)

Spec == Init /\ [][Next]_vars

(***************************************************************************)
(* Every operation of the engine on one user's claws: the writers of the   *)
(* lifecycle together with the readers of the strike log and the two       *)
(* surfacing passes                                                        *)
(***************************************************************************)
EngineInit ==
    /\ claws = [c \in {1, 2} |-> FreshClaw(c)]
    /\ strikes = << >>
    /\ users = [u \in Users |-> NewUser]
    /\ group_claws = << >>
    /\ now = LifeStart
    /\ sessions = << >>
    /\ response = [op |-> "none"]

EngineNext ==
    \/ \E c \in 1..2, pos \in {NONE, 1100} : StrikeClaw("u1", c, pos)
    \/ \E c \in 1..2 : ReleaseClaw("u1", c)
    \/ \E c \in 1..2 : ExtendClaw("u1", c, 1)
    \/ \E keep \in 1..2, other \in 1..2 : MergeClaws("u1", keep, <<other>>)
    \/ \E c \in 1..2, pos \in {NONE, 1100} : ScoreSingleClaw("u1", c, pos)
    \/ \E limit \in 1..2 : RankActiveItems("u1", 1100, limit)
    \/ \E category \in {NullCategory, "product", "task"} : GetPatterns("u1", category)
    \/ \E jitter \in [DOMAIN claws -> Jitters] : GetSurfaceClaws("u1", "amazon", jitter)
    \/ \E context \in SurfContexts : CheckAndResurface("u1", context)

SpecEngine == EngineInit /\ [][EngineNext]_vars

(***************************************************************************)
(* record_strike on drawn capture times, half an hour apart, from          *)
(* MaxElapsed hours before the strike to MaxAhead hours after it           *)
(***************************************************************************)
MaxElapsed == 51    \* the earliest capture time drawn, in hours before the strike

MaxAhead == 3       \* the latest capture time drawn, in hours after the strike

RecordStart == 60   \* a Wednesday, 12:00

RecordRequests ==
    [captured_min : {60 * RecordStart + 30 * k : k \in (-2 * MaxElapsed) .. (2 * MaxAhead)},
     minute : {0, 30}, pos : {NONE, 1100}]

RecordInit ==
    /\ claws = << >>
    /\ strikes = << >>
    /\ users = [u \in Users |-> NewUser]
    /\ group_claws = << >>
    /\ now = RecordStart
    /\ sessions \in {<<req>> : req \in RecordRequests}
    /\ response = [op |-> "none"]

\* one call of PatternAnalyzer.record_strike
RecordStrike ==
    /\ sessions # << >>
    /\ LET req == sessions[1]
           now_min == 60 * now + req.minute
       IN  /\ strikes' = add_strike(strikes,
                              record_strike_at("u1", 1, "product", req.captured_min,
                                               req.pos, now_min))
           /\ response' = [op |-> "record", now_min |-> now_min,
                           captured_min |-> req.captured_min]
    /\ sessions' = << >>
    /\ UNCHANGED <<claws, users, group_claws, now>>

RecordNext == RecordStrike

SpecRecord == RecordInit /\ [][RecordNext]_vars

(***************************************************************************)
(* The ranking on drawn tables: three claws of u1 of drawn status and      *)
(* category, the third a priority claw, a claw of u2, and a strike log     *)
(* that is empty or holds strikes, of tasks or of claws without a          *)
(* category, at this hour of this weekday                                  *)
(***************************************************************************)
MaxLimit == 3       \* the largest limit a ranking is asked with

RankCategories == {"product", "task", NullCategory}

RankStatus == {"active", "completed"}

RankHistories ==
    {<< >>, History("u1", "task", 2, 2, 2, 0, 1), History("u1", NullCategory, 2, 2, 2, 0, 1)}

RankInit ==
    \E st \in [1..3 -> RankStatus], cat \in [1..3 -> RankCategories], h \in RankHistories :
        /\ claws = [c \in 1..4 |->
                      IF c \in 1..3
                      THEN [NewClaw("u1", cat[c], NowScore - 24, NowScore + 200) EXCEPT
                                !.status = st[c], !.is_priority = (c = 3)]
                      ELSE NewClaw("u2", "task", NowScore - 24, NowScore + 200)]
        /\ strikes = h
        /\ users = [u \in Users |-> NewUser]
        /\ group_claws = << >>
        /\ now = NowScore
        /\ sessions = << >>
        /\ response = [op |-> "none"]

RankNext ==
    \E u \in Users, pos \in {NONE, 1100}, limit \in 1..MaxLimit : RankActiveItems(u, pos, limit)

SpecRank == RankInit /\ [][RankNext]_vars

(***************************************************************************)
(* The pattern summary on drawn strike logs: up to MaxLog strikes of tasks *)
(* in any order, on four days of the week at three hours of the day        *)
(***************************************************************************)
MaxLog == 4         \* the longest strike log drawn for the summary

\* Monday 10:00, Tuesday 09:00, Wednesday 10:00, Thursday 08:00
LogTimes == {10, 33, 58, 80}

LogRows ==
    {StrikeRow("u1", 1, "task", t, "none", 0, 5) : t \in LogTimes}
    \cup {StrikeRow("u2", 4, "task", 10, "none", 0, 5)}

PatternsInit ==
    \E n \in 1..MaxLog : \E log \in [1..n -> LogRows] :
        /\ claws = << >>
        /\ strikes = log
        /\ users = [u \in Users |-> NewUser]
        /\ group_claws = << >>
        /\ now = NowScore
        /\ sessions = << >>
        /\ response = [op |-> "none"]

PatternsNext ==
    \E category \in {NullCategory, "task", "product"} : GetPatterns("u1", category)

SpecPatterns == PatternsInit /\ [][PatternsNext]_vars

(***************************************************************************)
(* The nearest-store lookup on drawn positions, 50 m apart                 *)
(***************************************************************************)
MaxPosition == 120  \* the farthest position drawn, in steps of 50 m

NearestInit ==
    \E k \in 0..MaxPosition :
        /\ claws = << >>
        /\ strikes = << >>
        /\ users = [u \in Users |-> NewUser]
        /\ group_claws = << >>
        /\ now = NowScore
        /\ sessions = << [op |-> "nearest", pos |-> 50 * k] >>
        /\ response = [op |-> "none"]

\* one call of PatternAnalyzer._find_nearest_store
FindNearestStore ==
    /\ sessions # << >>
    /\ response' = [op |-> "nearest", pos |-> sessions[1].pos,
                    store |-> _find_nearest_store(sessions[1].pos)]
    /\ sessions' = << >>
    /\ UNCHANGED <<claws, strikes, users, group_claws, now>>

NearestNext == FindNearestStore

SpecNearest == NearestInit /\ [][NearestNext]_vars

(***************************************************************************)
(* Text similarity of the duplicate finder.  A text is a sequence of       *)
(* pieces, a piece being a blank or a run of letters; the pieces between   *)
(* two blanks make one word.  A quotient is kept as numerator and          *)
(* denominator.                                                            *)
(***************************************************************************)
MaxText == 3        \* the most pieces in a drawn text

Blank == " "

TextPieces == {"buy", "Buy", "milk", Blank}

\* str.lower on a piece
lower_piece(piece) == IF piece = "Buy" THEN "buy" ELSE piece

\* text.lower()
str_lower(text) == [i \in DOMAIN text |-> lower_piece(text[i])]

\* text.split(): the maximal runs of pieces that are not blanks; word is the
\* run being read
RECURSIVE split_words(_, _)
split_words(text, word) ==
    LET done == IF word = << >> THEN << >> ELSE <<word>>
    IN  IF Len(text) = 0 THEN done
        ELSE IF Head(text) = Blank THEN done \o split_words(Tail(text), << >>)
        ELSE split_words(Tail(text), Append(word, Head(text)))

str_split(text) == split_words(text, << >>)

_calculate_similarity_of_first(text1, text2) ==
    LET words1 == SeqRange(str_split(str_lower(text1)))
        words2 == SeqRange(str_split(str_lower(text2)))
    IN  IF words1 = {} \/ words2 = {} THEN [num |-> 0, den |-> 1]
        ELSE [num |-> Cardinality(words1 \cap words2), den |-> Cardinality(words1)]

\* _calculate_similarity: intersection / union, 0.0 if a text has no word
_calculate_similarity(text1, text2) ==
    LET words1 == SeqRange(str_split(str_lower(text1)))
        words2 == SeqRange(str_split(str_lower(text2)))
        intersection == Cardinality(words1 \cap words2)
        union == Cardinality(words1 \cup words2)
    IN  IF words1 = {} \/ words2 = {} THEN [num |-> 0, den |-> 1]
        ELSE IF union > 0 THEN [num |-> intersection, den |-> union]
        ELSE [num |-> 0, den |-> 1]

Texts == UNION {[1..n -> TextPieces] : n \in 0..MaxText}

SimilarityInit ==
    \E a \in Texts, b \in Texts :
        /\ claws = << >>
        /\ strikes = << >>
        /\ users = [u \in Users |-> NewUser]
        /\ group_claws = << >>
        /\ now = NowScore
        /\ sessions = << [op |-> "similarity", text1 |-> a, text2 |-> b] >>
        /\ response = [op |-> "none"]

\* one call of _calculate_similarity
CalculateSimilarity ==
    /\ sessions # << >>
    /\ response' = [op |-> "similarity", text1 |-> sessions[1].text1,
                    text2 |-> sessions[1].text2,
                    result |-> _calculate_similarity(sessions[1].text1, sessions[1].text2)]
    /\ sessions' = << >>
    /\ UNCHANGED <<claws, strikes, users, group_claws, now>>

SimilarityNext == CalculateSimilarity

SpecSimilarity == SimilarityInit /\ [][SimilarityNext]_vars

(***************************************************************************)
(* Strikes in which a step of the handler raises.  strike_claw commits     *)
(* three times: inside record_strike (the claw and the strike row), inside *)
(* increment_claws_completed (the counter) and at its end (the streak);    *)
(* its except branch rolls back what is not committed yet and answers 500  *)
(***************************************************************************)
\* the steps that can raise: the commit of record_strike, the commit of
\* increment_claws_completed, and update_streak, update_streak_bet or the
\* last commit
StrikeSteps == {"record_strike", "increment_claws_completed", "commit"}

\* POST /claws/{claw_id}/strike when the step failed raises
StrikeClawFailing(user_id, claw_id, pos, failed) ==
    LET c == find_claw(claws, claw_id, user_id)
    IN  IF c = NONE THEN Rejected("strike", 404)
        ELSE IF claws[c].status = "completed" THEN Rejected("strike", 400)
        ELSE IF failed = "record_strike" THEN Rejected("strike", 500)
        ELSE
          /\ Len(strikes) < MaxStrikes
          /\ claws' = [claws EXCEPT ![c].status = "completed", ![c].completed_at = now]
          /\ strikes' = add_strike(strikes,
                                   record_strike(user_id, c, claws[c].category,
                                                 claws[c].created_at, pos, now))
          /\ users' = IF failed = "increment_claws_completed" THEN users
                      ELSE [users EXCEPT ![user_id].total_claws_completed = @ + 1]
          /\ response' = [op |-> "strike", code |-> 500]
          /\ UNCHANGED <<group_claws, now, sessions>>

FaultNext ==
    \/ \E c \in RequestIds, pos \in {NONE, 1100} : StrikeClaw("u1", c, pos)
    \/ \E c \in RequestIds, pos \in {NONE, 1100}, failed \in StrikeSteps :
          StrikeClawFailing("u1", c, pos, failed)
    \/ \E c \in RequestIds : ReleaseClaw("u1", c)
    \/ \E c \in RequestIds : ExtendClaw("u1", c, 1)

SpecFault == Init /\ [][FaultNext]_vars

(***************************************************************************)
(* The strike streak of a user: update_streak, the monthly freeze and the  *)
(* one-time recovery, on a clock that advances by days                     *)
(***************************************************************************)
MaxStreakDays == 4  \* the days the clock of the streak runs advances

\* the month of an instant, months taken as 30 days
month_of(t) == t \div (24 * 30)

\* User._get_available_freezes: the user after the monthly reset and the
\* freezes left
_get_available_freezes(user, t) ==
    LET reset == user.streak_freeze_reset_date
        after == IF reset = NONE THEN [user EXCEPT !.streak_freeze_reset_date = t]
                 ELSE IF month_of(t) # month_of(reset)
                 THEN [user EXCEPT !.streak_freezes_used_this_month = 0,
                                   !.streak_freeze_reset_date = t]
                 ELSE user
    IN  [user |-> after,
         available |-> Max(0, after.streak_freezes_available
                                - after.streak_freezes_used_this_month)]

\* the strike of strike_claw as far as the streak goes: User.update_streak
UpdateStreak(u) ==
    /\ users' = [users EXCEPT ![u] = update_streak(@, now)]
    /\ response' = [op |-> "streak", code |-> 200]
    /\ UNCHANGED <<claws, strikes, group_claws, now, sessions>>

\* POST /users/use-freeze
UseStreakFreeze(u) ==
    LET got == _get_available_freezes(users[u], now)
    IN  IF got.available > 0
        THEN /\ users' = [users EXCEPT ![u] =
                            [got.user EXCEPT !.streak_freezes_used_this_month = @ + 1,
                                             !.last_strike_date = now]]
             /\ response' = [op |-> "freeze", code |-> 200]
             /\ UNCHANGED <<claws, strikes, group_claws, now, sessions>>
        ELSE Rejected("freeze", 400)

\* POST /users/use-recovery
UseStreakRecovery(u) ==
    IF users[u].streak_recovery_available /\ users[u].longest_streak_days > 0
    THEN /\ users' = [users EXCEPT ![u] =
                        [@ EXCEPT !.current_streak_days =
                                      Min(users[u].longest_streak_days,
                                          users[u].current_streak_days + 7),
                                  !.streak_recovery_available = FALSE,
                                  !.last_strike_date = now]]
         /\ response' = [op |-> "recovery", code |-> 200]
         /\ UNCHANGED <<claws, strikes, group_claws, now, sessions>>
    ELSE Rejected("recovery", 400)

\* a day passes
StreakTick ==
    /\ now < LifeStart + 24 * MaxStreakDays
    /\ now' = now + 24
    /\ UNCHANGED <<claws, strikes, users, group_claws, sessions, response>>

StreakInit ==
    /\ claws = << >>
    /\ strikes = << >>
    /\ users = [u \in Users |-> NewUser]
    /\ group_claws = << >>
    /\ now = LifeStart
    /\ sessions = << >>
    /\ response = [op |-> "none"]

StreakNext ==
    \/ UpdateStreak("u1")
    \/ UseStreakFreeze("u1")
    \/ UseStreakRecovery("u1")
    \/ StreakTick

SpecStreak == StreakInit /\ [][StreakNext]_vars

(***************************************************************************)
(* Merge on drawn tables                                                   *)
(***************************************************************************)
ClawStatus == {"active", "completed", "expired", "archived"}

\* claw c as an earlier strike, release or merge left it with status st
ClawInStatus(c, st) ==
    CASE st = "completed" -> [FreshClaw(c) EXCEPT !.status = st, !.completed_at = LifeStart - c]
      [] st = "expired" -> [FreshClaw(c) EXCEPT !.status = st, !.expires_at = LifeStart - c]
      [] OTHER -> [FreshClaw(c) EXCEPT !.status = st]

MergeInit ==
    \E st \in [1..3 -> ClawStatus] :
        /\ claws = [c \in 1..4 |-> IF c \in 1..3 THEN ClawInStatus(c, st[c]) ELSE FreshClaw(c)]
        /\ strikes = << >>
        /\ users = [u \in Users |-> NewUser]
        /\ group_claws = << >>
        /\ now = LifeStart
        /\ sessions = << >>
        /\ response = [op |-> "none"]

MergeNext ==
    \E keep \in RequestIds, ids \in MergeLists : MergeClaws("u1", keep, ids)

SpecMerge == MergeInit /\ [][MergeNext]_vars

(***************************************************************************)
(* Overlapping requests                                                    *)
(*                                                                         *)
(* Each request runs in a database session of its own.  A session loads    *)
(* rows into its identity map when it queries and writes the attributes    *)
(* the handler assigned when it commits; nothing locks a row between the   *)
(* two (no with_for_update, no version column), so the steps of different  *)
(* requests interleave at the statements that reach the database.          *)
(***************************************************************************)
MaxSessions == 3    \* requests in flight at once

ConcStart == 10     \* a Monday, 10:00

\* a request that has not started: a strike of claw, or a surfacing pass
StrikeRequest(claw_id) ==
    [op |-> "strike", user |-> "u1", claw |-> claw_id, pc |-> "start"]

SurfaceRequest(active_app) ==
    [op |-> "surface", user |-> "u1", app |-> active_app, pc |-> "start"]

ConcRequests ==
    {StrikeRequest(c) : c \in {1, 2}} \cup {SurfaceRequest(a) : a \in {"amazon"}}

\* strike_claw up to its pre-check: the claw is loaded and, if it is missing
\* or already completed, the request ends
StrikeBegin(r) ==
    LET req == sessions[r]
        c == find_claw(claws, req.claw, req.user)
    IN  /\ req.op = "strike" /\ req.pc = "start"
        /\ IF c = NONE
           THEN /\ sessions' = [sessions EXCEPT ![r] = [op |-> "strike", claw |-> req.claw,
                                                         pc |-> "done", code |-> 404]]
                /\ response' = [op |-> "strike", code |-> 404]
           ELSE IF claws[c].status = "completed"
           THEN /\ sessions' = [sessions EXCEPT ![r] = [op |-> "strike", claw |-> req.claw,
                                                         pc |-> "done", code |-> 400]]
                /\ response' = [op |-> "strike", code |-> 400]
           ELSE /\ sessions' = [sessions EXCEPT ![r] = [op |-> "strike", user |-> req.user,
                                                         claw |-> req.claw, pc |-> "checked",
                                                         row |-> claws[c]]]
                /\ UNCHANGED response
        /\ UNCHANGED <<claws, strikes, users, group_claws, now>>

\* strike_claw from the status assignment to the commit of record_strike,
\* which flushes the status of the claw together with the new strike row
StrikeRecord(r) ==
    LET req == sessions[r]
    IN  /\ req.op = "strike" /\ req.pc = "checked"
        /\ claws' = [claws EXCEPT ![req.claw].status = "completed",
                                  ![req.claw].completed_at = now]
        /\ strikes' = add_strike(strikes,
                                 record_strike(req.user, req.claw, req.row.category,
                                               req.row.created_at, NONE, now))
        /\ sessions' = [sessions EXCEPT ![r] = [op |-> "strike", user |-> req.user,
                                                claw |-> req.claw, pc |-> "recorded"]]
        /\ UNCHANGED <<users, group_claws, now, response>>

\* strike_claw after record_strike: the user row, expired by the commit, is
\* read again, counted and streaked, and committed
StrikeFinish(r) ==
    LET req == sessions[r]
    IN  /\ req.op = "strike" /\ req.pc = "recorded"
        /\ users' = [users EXCEPT ![req.user] =
                        update_streak([@ EXCEPT !.total_claws_completed = @ + 1], now)]
        /\ sessions' = [sessions EXCEPT ![r] = [op |-> "strike", claw |-> req.claw,
                                                pc |-> "done", code |-> 200]]
        /\ response' = [op |-> "strike", code |-> 200]
        /\ UNCHANGED <<claws, strikes, group_claws, now>>

\* get_surface_claws up to the end of its scoring loop: the rows are loaded
\* and the claws to surface chosen
SurfaceBegin(r, jitter) ==
    LET req == sessions[r]
        scored_claws == surface_selection(claws, req.user, req.app, jitter, now)
        ids == {scored_claws[i].claw : i \in DOMAIN scored_claws}
    IN  /\ req.op = "surface" /\ req.pc = "start"
        /\ sessions' = [sessions EXCEPT ![r] =
                           [op |-> "surface", pc |-> "selected", ids |-> ids,
                            loaded |-> [c \in ids |-> claws[c].surface_count]]]
        /\ UNCHANGED <<claws, strikes, users, group_claws, now, response>>

\* get_surface_claws from "claw.surface_count += 1" on the loaded rows to the
\* commit: the UPDATE sets the value computed from the loaded one
SurfaceCommit(r) ==
    LET req == sessions[r]
    IN  /\ req.op = "surface" /\ req.pc = "selected"
        /\ claws' = [c \in DOMAIN claws |->
                        IF c \in req.ids
                        THEN [claws[c] EXCEPT !.last_surfaced_at = now,
                                              !.surface_count = req.loaded[c] + 1]
                        ELSE claws[c]]
        /\ sessions' = [sessions EXCEPT ![r] = [op |-> "surface", pc |-> "done",
                                                ids |-> req.ids]]
        /\ response' = [op |-> "surface", code |-> 200]
        /\ UNCHANGED <<strikes, users, group_claws, now>>

\* claws 1 and 2 of u1 are active and triggered by an application
ConcInit ==
    \E reqs \in [1..MaxSessions -> ConcRequests] :
        /\ claws = [c \in {1, 2} |->
                      [NewClaw("u1", "product", 0, 168) EXCEPT
                           !.app_trigger = IF c = 1 THEN "amazon" ELSE "amazon shopping"]]
        /\ strikes = << >>
        /\ users = [u \in Users |-> NewUser]
        /\ group_claws = << >>
        /\ now = ConcStart
        /\ sessions = reqs
        /\ response = [op |-> "none"]

ConcNext ==
    \/ \E r \in DOMAIN sessions : StrikeBegin(r)
    \/ \E r \in DOMAIN sessions : StrikeRecord(r)
    \/ \E r \in DOMAIN sessions : StrikeFinish(r)
    \/ \E r \in DOMAIN sessions, jitter \in [DOMAIN claws -> Jitters] : SurfaceBegin(r, jitter)
    \/ \E r \in DOMAIN sessions : SurfaceCommit(r)

SpecConc == ConcInit /\ [][ConcNext]_vars

(***************************************************************************)
(* Properties of the scorer (checked under SpecScore)                      *)
(***************************************************************************)
\* the claw a "score" response is about, and its history
ScoredClaw == claws[response.req.claw]

ScoredHistory == query_patterns(strikes, ScoredClaw.user_id, ScoredClaw.category)

\* the score of the same request for the same claw, had it not expired
UnexpiredScore ==
    calculate_resurface_score(strikes, [ScoredClaw EXCEPT !.expires_at = now + 24],
                              response.req.pos, response.req.hour, response.req.dow, now).score

\* C1: every score the relevance scorer returns, from the per-claw scorer and
\* from the ranking alike, lies in the closed interval [0, 1].
C1_ScoreInUnitInterval ==
    /\ response.op = "score" => response.score \in 0..100
    /\ response.op = "rank" =>
          \A i \in DOMAIN response.items : response.items[i].score \in 0..100

\* C1 witness: day, hour, location and priority all fired (sum 1.3) and the
\* returned score is 1.
C1_Witness ==
    /\ response.op = "score"
    /\ Len(response.reason) = 4
    /\ ~is_expired(ScoredClaw, now)
    /\ response.score = 100

\* C2 as stated: the score of an expired claw is max(0.1, u - 0.3), u being
\* the score of the same input with the claw not expired.
C2_ExpiredIsUnexpiredMinusPenalty ==
    (response.op = "score" /\ is_expired(ScoredClaw, now))
        => response.score = Max(10, UnexpiredScore - 30)

\* C2 amended: with a non-empty history and u below 1 the expired score is
\* max(0.1, u - 0.3); when u is 1 the penalty was taken from the unclamped sum
\* and the expired score is between 0.7 and 1; with an empty history expiry
\* does not change the score.
C2_ExpiryPenalty ==
    (response.op = "score" /\ is_expired(ScoredClaw, now)) =>
        /\ (Len(ScoredHistory) > 0 /\ UnexpiredScore < 100)
              => response.score = Max(10, UnexpiredScore - 30)
        /\ (Len(ScoredHistory) > 0 /\ UnexpiredScore = 100)
              => response.score \in 70..100
        /\ Len(ScoredHistory) = 0 => response.score = UnexpiredScore

\* C2 witness: an expired claw with a history whose unexpired score is 0.9
\* was scored 0.6.
C2_Witness ==
    /\ response.op = "score"
    /\ is_expired(ScoredClaw, now)
    /\ Len(ScoredHistory) > 0
    /\ UnexpiredScore = 90
    /\ response.score = 60

\* the day rule fires for the scored request: more than 30% of the history
\* was struck on the day of the request
DayRuleApplies ==
    /\ response.op = "score"
    /\ Len(ScoredHistory) > 0
    /\ 10 * Cardinality({i \in DOMAIN ScoredHistory :
                             ScoredHistory[i].day_of_week = response.req.dow})
          > 3 * Len(ScoredHistory)

CategoryInReason == IF ScoredClaw.category = NullCategory THEN "None" ELSE ScoredClaw.category

FullDayName(d) ==
    CASE d = 0 -> "Monday" [] d = 1 -> "Tuesday" [] d = 2 -> "Wednesday"
      [] d = 3 -> "Thursday" [] d = 4 -> "Friday" [] d = 5 -> "Saturday" [] OTHER -> "Sunday"

ShortDayName(d) ==
    CASE d = 0 -> "Mon" [] d = 1 -> "Tue" [] d = 2 -> "Wed"
      [] d = 3 -> "Thu" [] d = 4 -> "Fri" [] d = 5 -> "Sat" [] OTHER -> "Sun"

\* C21 as stated: whenever the day rule fires the reason contains "often strike
\* <category> items on <DayName>", <DayName> being the full name of the
\* current weekday ("... on Thursday").
C21_DayReasonNamesFullDay ==
    DayRuleApplies =>
        \E i \in DOMAIN response.reason :
            response.reason[i] = <<"You often strike", CategoryInReason, "items on",
                                   FullDayName(response.req.dow)>>

\* C21 amended: whenever the day rule fires the reason contains "You often
\* strike <category> items on <Day>", <Day> being the three-letter
\* abbreviation of the current weekday ("... on Thu") and <category> the
\* category of the claw, printed as None for a claw without one.
C21_DayReasonNamesShortDay ==
    DayRuleApplies =>
        \E i \in DOMAIN response.reason :
            response.reason[i] = <<"You often strike", CategoryInReason, "items on",
                                   ShortDayName(response.req.dow)>>

\* a task was scored on a Thursday, all strikes of its history being Thursdays
C21_Witness ==
    /\ DayRuleApplies
    /\ ScoredClaw.category = "task" /\ response.req.dow = 3
    /\ response.reason[1] = <<"You often strike", "task", "items on", "Thu">>

\* the score of the same request for the same claw without the priority flag
UnprioritizedScore ==
    calculate_resurface_score(strikes, [ScoredClaw EXCEPT !.is_priority = FALSE],
                              response.req.pos, response.req.hour, response.req.dow, now).score

\* C22: with a non-empty history and a claw that has not expired, the score of
\* a priority claw is min(1, s + 0.1), s being the score of the same input
\* without the priority flag: 0.1 higher unless the clamp to 1 intervenes.
C22_PriorityAddsTenth ==
    (/\ response.op = "score"
     /\ Len(ScoredHistory) > 0
     /\ ~is_expired(ScoredClaw, now)
     /\ ScoredClaw.is_priority)
    => response.score = Min(100, UnprioritizedScore + 10)

\* a priority claw with a history was scored 0.8 where the same claw without
\* the flag scores 0.7
C22_Witness ==
    /\ response.op = "score"
    /\ Len(ScoredHistory) > 0
    /\ ~is_expired(ScoredClaw, now)
    /\ ScoredClaw.is_priority
    /\ UnprioritizedScore = 70
    /\ response.score = 80

\* the reasons of a "score" response, by the rule that gives them
HasReason(first) == \E i \in DOMAIN response.reason : response.reason[i][1] = first

HourReason == HasReason("Good time of day for you")

LocationReason == HasReason("You're near")

\* the sum the rules of the reasons of the response add up to, clamped to 1
ScoreOfReasons ==
    Min(100, 50 + (IF HasReason("You often strike") THEN 20 ELSE 0)
                + (IF HourReason THEN 20 ELSE 0)
                + (IF LocationReason THEN 30 ELSE 0)
                + (IF HasReason("VIP item") THEN 10 ELSE 0))

\* the strikes of the scored history within two hours of the hour of the
\* request, hours taken as the integers 0..23
HourMatches ==
    Cardinality({i \in DOMAIN ScoredHistory :
        /\ ScoredHistory[i].hour_of_day - response.req.hour <= 2
        /\ response.req.hour - ScoredHistory[i].hour_of_day <= 2})

\* C26: with a non-empty history the hour rule adds 0.2 exactly when the
\* strikes whose hour h has |h - current hour| <= 2 are strictly more than 30%
\* of the history, hours compared as plain integers 0..23: a strike at 23:00
\* is not within two hours of a current hour of 0.
C26_HourRuleNoWrap ==
    (response.op = "score" /\ Len(ScoredHistory) > 0) =>
        /\ HourReason <=> (10 * HourMatches > 3 * Len(ScoredHistory))
        /\ ~is_expired(ScoredClaw, now) => response.score = ScoreOfReasons

\* scored at hour 0 with every strike of the history at 23:00: the hour rule
\* did not fire
C26_Witness ==
    /\ response.op = "score"
    /\ Len(ScoredHistory) > 0
    /\ response.req.hour = 0
    /\ \A i \in DOMAIN ScoredHistory : ScoredHistory[i].hour_of_day = 23
    /\ ~HourReason

\* the result of the same request for the same claw without coordinates
ResultWithoutPosition ==
    calculate_resurface_score(strikes, ScoredClaw, NONE,
                              response.req.hour, response.req.dow, now)

\* the store within 500 m nearest to the position of the request, if there is
\* one, is the matched store of a strike of the scored history
NearStoreOfHistory ==
    /\ response.req.pos # NONE
    /\ \E i \in DOMAIN ICELANDIC_STORES :
          Abs(response.req.pos - ICELANDIC_STORES[i].pos) < 500
    /\ \E i \in DOMAIN ScoredHistory :
          ScoredHistory[i].near_store = _find_nearest_store(response.req.pos)

\* C27: the location rule adds 0.3 exactly when coordinates are supplied, the
\* category of the claw is product, restaurant or task, a store of the
\* registry lies within 500 m and the nearest such store is the matched store
\* of at least one strike of the history; for a claw of any other category
\* score and reason are the same with and without coordinates.
C27_LocationRule ==
    (response.op = "score" /\ Len(ScoredHistory) > 0) =>
        /\ LocationReason <=>
              (ScoredClaw.category \in {"product", "restaurant", "task"} /\ NearStoreOfHistory)
        /\ ~is_expired(ScoredClaw, now) =>
              response.score = Min(100, ResultWithoutPosition.score
                                          + (IF LocationReason THEN 30 ELSE 0))
        /\ ScoredClaw.category \notin {"product", "restaurant", "task"} =>
              /\ response.score = ResultWithoutPosition.score
              /\ response.reason = ResultWithoutPosition.reason

\* a book with a strike near the store the request is 100 m away from: no
\* location reason
C27_Witness ==
    /\ response.op = "score"
    /\ ScoredClaw.category = "book"
    /\ NearStoreOfHistory
    /\ ~LocationReason

(***************************************************************************)
(* Properties of context-triggered surfacing (checked under SpecSurf)      *)
(***************************************************************************)
\* C3 as stated: a claw surfaced less than 4 hours ago is suppressed in every
\* surfacing pass whatever matches it has, so no pass surfaces it again.
C3_SuppressedWithinFourHours ==
    [][\A c \in DOMAIN claws :
          (claws[c].last_surfaced_at # NONE /\ now - claws[c].last_surfaced_at < 4)
              => claws'[c].surface_count = claws[c].surface_count]_vars

\* C4 as stated: a claw with surface_count above 3 never passes the threshold
\* again, so its surface_count stops growing.
C4_OverSurfacedStopsGrowing ==
    [][\A c \in DOMAIN claws :
          claws[c].surface_count > 3
              => claws'[c].surface_count = claws[c].surface_count]_vars

(***************************************************************************)
(* Properties of overlapping requests (checked under SpecConc)             *)
(***************************************************************************)
\* the strike rows written for claw c
StrikeEventsOf(c) == {i \in DOMAIN strikes : strikes[i].claw_id = c}

\* the finished requests of kind op
Finished(op) == {r \in DOMAIN sessions : sessions[r].op = op /\ sessions[r].pc = "done"}

\* C5 as stated: however strike requests for the same active claw overlap,
\* one completion is recorded: at most one strike row exists for the claw and
\* at most one of the requests succeeds, the others being rejected as already
\* completed.
C5_OneStrikeEventPerItem ==
    \A c \in DOMAIN claws :
        /\ Cardinality(StrikeEventsOf(c)) <= 1
        /\ Cardinality({r \in Finished("strike") :
                            sessions[r].claw = c /\ sessions[r].code = 200}) <= 1

\* C6 as stated: no increment of surface_count is lost: the surface_count of
\* a claw is the number of committed surfacing requests that returned it.
C6_NoLostSurfaceIncrement ==
    \A c \in DOMAIN claws :
        claws[c].surface_count =
            Cardinality({r \in Finished("surface") : c \in sessions[r].ids})

\* C17 as stated: when a surfacing request commits, every claw it returned has
\* a surface_count exactly one higher than before the commit and a
\* last_surfaced_at equal to the time of the request, and every other claw
\* keeps both: no claw is returned without being counted.
C17_SurfacingCountsWhatItReturns ==
    [][\A r \in DOMAIN sessions :
          (/\ sessions[r].op = "surface"
           /\ sessions[r].pc = "selected" /\ sessions'[r].pc = "done")
          => \A c \in DOMAIN claws :
                IF c \in sessions'[r].ids
                THEN /\ claws'[c].surface_count = claws[c].surface_count + 1
                     /\ claws'[c].last_surfaced_at = now
                ELSE /\ claws'[c].surface_count = claws[c].surface_count
                     /\ claws'[c].last_surfaced_at = claws[c].last_surfaced_at]_vars

(***************************************************************************)
(* Properties of the lifecycle (checked under Spec)                        *)
(***************************************************************************)
\* C7 as stated: archived is terminal: no step changes the status of an
\* archived claw.
C7_ArchivedIsTerminal ==
    [][\A c \in DOMAIN claws :
          claws[c].status = "archived" => claws'[c].status = "archived"]_vars

\* C18: extend succeeds only on a claw whose status is active, and then sets
\* the expiry strictly later than it was and leaves the status active; on a
\* claw of any other status extend is rejected and the claw keeps its expiry
\* and its status (as does every other row).
C18_ExtendOnlyActive ==
    [][response'.op = "extend" =>
          \A c \in {x \in RequestIds : x \in DOMAIN claws /\ claws[x].user_id = "u1"} :
              ExtendClaw("u1", c, 1) =>
                  IF claws[c].status = "active"
                  THEN /\ response'.code = 200
                       /\ claws'[c].expires_at > claws[c].expires_at
                       /\ claws'[c].status = "active"
                  ELSE /\ response'.code = 400
                       /\ claws' = claws]_vars

\* claw 1 was extended by a day and is still active, and an extend of the
\* struck claw 2 was rejected
C18_Witness ==
    /\ response = [op |-> "extend", code |-> 400]
    /\ claws[1].status = "active" /\ claws[1].expires_at = FreshClaw(1).expires_at + 24
    /\ claws[2].status = "completed" /\ claws[2].expires_at = FreshClaw(2).expires_at

\* the id names no claw of u1: it is unknown or the claw is another user's
NotOwn(c) == c \notin DOMAIN claws \/ claws[c].user_id # "u1"

\* the step answers 404 and writes nothing
NotFoundNoWrite ==
    /\ response'.code = 404
    /\ UNCHANGED <<claws, strikes, users, group_claws>>

\* C11: a strike, release, extend or score request for an id that is unknown
\* or another user's, and a merge request with such an id as keep or among
\* the merge ids, is answered NotFound and changes no claw, no user and no
\* strike row.
C11_NotFoundWritesNothing ==
    [][\/ NotFoundNoWrite
       \/ /\ \A c \in {x \in RequestIds : NotOwn(x)} :
                ~ \/ /\ response'.op = "strike"
                      /\ \E pos \in {1100} : StrikeClaw("u1", c, pos)
                   \/ /\ response'.op = "release"
                      /\ ReleaseClaw("u1", c)
                   \/ /\ response'.op = "extend"
                      /\ ExtendClaw("u1", c, 1)
                   \/ /\ response'.op = "score"
                      /\ \E pos \in {NONE, 1100} : ScoreSingleClaw("u1", c, pos)
          /\ \/ response'.op # "merge"
             \/ \A keep \in RequestIds, ids \in MergeLists :
                   (NotOwn(keep) \/ \E i \in DOMAIN ids : NotOwn(ids[i]))
                       => ~MergeClaws("u1", keep, ids)]_vars

\* C11 witness: after a merge and a strike, a request for the claw of u2 was
\* answered 404 and that claw is as it was created.
C11_Witness ==
    /\ response.op \in {"strike", "release", "extend", "score"}
    /\ response.code = 404
    /\ claws[4] = FreshClaw(4)
    /\ Len(strikes) = 1
    /\ claws[1].content # << >>

\* C19: when the owner's strike history of the claw's category is empty, the
\* scorer returns 0.6 "Shopping item - check when near stores" for a product
\* or a restaurant and 0.5 "No pattern data yet" for every other category,
\* whatever the priority flag, the expiry, the hour, the day and the position.
C19_EmptyHistoryDefault ==
    (/\ response.op = "score"
     /\ \A i \in DOMAIN strikes :
           strikes[i].user_id # "u1" \/ strikes[i].category # claws[1].category)
    => IF claws[1].category \in {"product", "restaurant"}
       THEN /\ response.score = 60
            /\ response.reason = << <<"Shopping item - check when near stores">> >>
       ELSE /\ response.score = 50
            /\ response.reason = << <<"No pattern data yet">> >>

\* an expired priority restaurant was scored near a store, the log holding
\* only strikes of another category and of another user
C19_Witness ==
    /\ response.op = "score"
    /\ strikes # << >>
    /\ \A i \in DOMAIN strikes :
          strikes[i].user_id # "u1" \/ strikes[i].category # claws[1].category
    /\ claws[1].category = "restaurant" /\ claws[1].is_priority
    /\ is_expired(claws[1], now)
    /\ response.req.pos # NONE
    /\ response.score = 60

\* the strikes of the scored history on the day of the request
DayMatches == Cardinality({i \in DOMAIN strikes : strikes[i].day_of_week = response.req.dow})

\* the day reason is among the reasons of the response
DayRuleFired ==
    \E i \in DOMAIN response.reason : response.reason[i][1] = "You often strike"

\* no rule but the day rule can have fired: no strike of the history is
\* within two hours of the hour of the request, the request has no position,
\* the claw is not a priority claw and has not expired
OnlyDayRule ==
    /\ \A i \in DOMAIN strikes : Abs(strikes[i].hour_of_day - response.req.hour) > 2
    /\ response.req.pos = NONE
    /\ ~claws[1].is_priority
    /\ ~is_expired(claws[1], now)

\* C20: with a non-empty history the day rule adds 0.2 to the base 0.5 exactly
\* when the strikes on the current day are strictly more than 30% of all
\* strikes of the history: of 10 strikes, 4 on the day give 0.7 and 3 on the
\* day leave 0.5 when no other rule fires.
C20_DayRuleStrictlyAboveThirtyPercent ==
    (response.op = "score" /\ strikes # << >>) =>
        /\ DayRuleFired <=> (10 * DayMatches > 3 * Len(strikes))
        /\ OnlyDayRule => response.score = (IF DayRuleFired THEN 70 ELSE 50)

\* ten strikes, three of them on the day of the request: the score stays 0.5
C20_Witness ==
    /\ response.op = "score"
    /\ Len(strikes) = 10 /\ DayMatches = 3
    /\ OnlyDayRule
    /\ response.score = 50

\* the strikes a "patterns" response summarises, in the order they are stored
SummarisedStrikes ==
    LET Mine(p) == /\ p.user_id = response.user
                   /\ response.category = NullCategory \/ p.category = response.category
    IN  SelectSeq(strikes, Mine)

DayIndex(name) == CHOOSE d \in Days : DayNames[d + 1] = name

\* the days and the hours of the summarised strikes, in stored order
SummarisedDays == [i \in DOMAIN SummarisedStrikes |-> SummarisedStrikes[i].day_of_week]

SummarisedHours == [i \in DOMAIN SummarisedStrikes |-> SummarisedStrikes[i].hour_of_day]

CountIn(keys, k) == Cardinality({i \in DOMAIN keys : keys[i] = k})

FirstIn(keys, k) == CHOOSE i \in DOMAIN keys : keys[i] = k /\ \A j \in 1..(i - 1) : keys[j] # k

\* peaks (a list of [key, score], keys being values of keys) is the three most
\* frequent values of keys with their counts in descending order of count,
\* Before(k1, k2) deciding between values of equal count
TopThree(peaks, keys, Before(_, _)) ==
    LET values == {keys[i] : i \in DOMAIN keys}
        listed == {peaks[i].key : i \in DOMAIN peaks}
        Ahead(k1, k2) == \/ CountIn(keys, k1) > CountIn(keys, k2)
                         \/ CountIn(keys, k1) = CountIn(keys, k2) /\ Before(k1, k2)
    IN  /\ Len(peaks) = Min(3, Cardinality(values))
        /\ listed \subseteq values
        /\ \A i \in DOMAIN peaks : peaks[i].score = CountIn(keys, peaks[i].key)
        /\ \A i, j \in DOMAIN peaks : i < j => Ahead(peaks[i].key, peaks[j].key)
        /\ \A k \in values \ listed : \A i \in DOMAIN peaks : Ahead(peaks[i].key, k)

PeakDayIndexes ==
    [i \in DOMAIN response.patterns.peak_days |->
        [key |-> DayIndex(response.patterns.peak_days[i].key),
         score |-> response.patterns.peak_days[i].score]]

HasSummary == response.op = "patterns" /\ DOMAIN response.patterns # {}

\* C23 as stated: the peak days are the 3 days of the week with the highest
\* counts in descending order of count, equal counts by lower day index first,
\* and the peak hours likewise with equal counts by lower hour first, whatever
\* the order in which the strikes are stored.
C23_PeaksTieByLowerIndex ==
    HasSummary =>
        LET Lower(k1, k2) == k1 < k2
        IN  /\ TopThree(PeakDayIndexes, SummarisedDays, Lower)
            /\ TopThree(response.patterns.peak_hours, SummarisedHours, Lower)

\* C23 amended: the peak days and the peak hours are the 3 values with the
\* highest counts in descending order of count, equal counts in the order in
\* which the values first occur among the fetched strikes.
C23_PeaksTieByFirstSeen ==
    HasSummary =>
        LET DayFirst(k1, k2) == FirstIn(SummarisedDays, k1) < FirstIn(SummarisedDays, k2)
            HourFirst(k1, k2) == FirstIn(SummarisedHours, k1) < FirstIn(SummarisedHours, k2)
        IN  /\ TopThree(PeakDayIndexes, SummarisedDays, DayFirst)
            /\ TopThree(response.patterns.peak_hours, SummarisedHours, HourFirst)

\* four strikes on four days, stored Thursday first: Thursday leads the peak
\* days although Monday, Tuesday and Wednesday have the same count, and
\* Wednesday is the day left out
C23_Witness ==
    /\ HasSummary
    /\ Len(SummarisedStrikes) = 4
    /\ Len(response.patterns.peak_days) = 3
    /\ response.patterns.peak_days[1] = [key |-> "Thursday", score |-> 1]
    /\ \A i \in 1..3 : response.patterns.peak_days[i].key # "Wednesday"

\* the distance of the looked-up position to entry i of the registry
DistanceTo(i) == Abs(response.pos - ICELANDIC_STORES[i].pos)

\* C24: the lookup returns the entry of the registry with the least distance
\* to the position among the entries less than 500 m away (an entry exactly
\* 500 m away does not qualify), none when no entry qualifies, and of several
\* entries at the same least distance the first in registry order.
C24_NearestWithinRadiusFirstOfTies ==
    response.op = "nearest" =>
        LET within == {i \in DOMAIN ICELANDIC_STORES : DistanceTo(i) < 500}
        IN  IF within = {} THEN response.store = "none"
            ELSE \E i \in within :
                    /\ response.store = ICELANDIC_STORES[i].chain
                    /\ \A j \in within :
                          \/ DistanceTo(i) < DistanceTo(j)
                          \/ DistanceTo(i) = DistanceTo(j) /\ i <= j

\* halfway between the first and the third entry, 450 m from each, the lookup
\* returns the first
C24_Witness ==
    /\ response.op = "nearest"
    /\ DistanceTo(1) = 450 /\ DistanceTo(3) = 450
    /\ response.store = ICELANDIC_STORES[1].chain

\* the lower-cased whitespace-separated words of a text
WordSet(text) == SeqRange(str_split(str_lower(text)))

\* the quotients n1/d1 and n2/d2 are equal
SameQuotient(q1, q2) == q1.num * q2.den = q2.num * q1.den

\* C25: similarity(a, b) is |A n B| / |A u B|, A and B being the sets of
\* lower-cased whitespace-separated words of a and b, and 0 when either set
\* is empty; so it is symmetric, 1 for two texts with the same non-empty set
\* of words and 0 for two texts that share no word.
C25_SimilarityIsJaccard ==
    response.op = "similarity" =>
        LET A == WordSet(response.text1)
            B == WordSet(response.text2)
            r == response.result
        IN  /\ r.den > 0
            /\ IF A = {} \/ B = {} THEN r.num = 0
               ELSE r.num * Cardinality(A \cup B) = r.den * Cardinality(A \cap B)
            /\ SameQuotient(r, _calculate_similarity(response.text2, response.text1))
            /\ (A = B /\ A # {}) => r.num = r.den
            /\ A \cap B = {} => r.num = 0

\* "Buy milk" against "milk buy": the same two words in another case and
\* order, similarity 1
C25_Witness ==
    /\ response.op = "similarity"
    /\ response.text1 = <<"Buy", Blank, "milk">>
    /\ response.text2 = <<"milk", Blank, "buy">>
    /\ response.result.num = response.result.den

\* C28 as stated: for every active claw of the user, a claw without a category
\* included, the score and the reason of the ranking are those the per-claw
\* scorer returns for the same claw, hour, day, position and strike log.
C28_RankingAgreesWithScorer ==
    response.op = "rank" =>
        \A i \in DOMAIN response.items :
            LET r == calculate_resurface_score(strikes, claws[response.items[i].claw],
                                               response.pos, hour_of(now), weekday(now), now)
            IN  /\ response.items[i].score = r.score
                /\ response.items[i].reason = r.reason

\* C29 as stated: a strike is all or nothing: when it reports a failure, the
\* status and completion time of the claw, the strike log and the completion
\* counter of the user are as they were before the request.
C29_FailedStrikeChangesNothing ==
    [][(response'.op = "strike" /\ response'.code = 500) =>
          /\ claws' = claws
          /\ strikes' = strikes
          /\ \A u \in Users :
                users'[u].total_claws_completed = users[u].total_claws_completed]_vars

\* C30 as stated: after any sequence of update_streak, use_streak_freeze and
\* use_streak_recovery calls from a new user, the longest streak of a user is
\* at least the current streak.
C30_LongestAtLeastCurrent ==
    \A u \in Users : users[u].longest_streak_days >= users[u].current_streak_days

\* C12: the strike log is append-only under every operation of the engine
\* (recording a strike, reading the patterns, scoring, ranking, the two
\* surfacing passes, merge, extend, release): a step never removes or changes
\* a row that is there, it can only add rows after them.
C12_StrikeLogAppendOnly ==
    [][/\ Len(strikes') >= Len(strikes)
       /\ SubSeq(strikes', 1, Len(strikes)) = strikes]_vars

\* two strikes are on the log, and a merge of the two struck claws went through
C12_Witness ==
    /\ Len(strikes) = 2
    /\ strikes[1].claw_id # strikes[2].claw_id
    /\ response.op = "merge" /\ response.code = 200

\* C13: the recorded time to strike is floor((now - captured_at) / 1 hour)
\* clamped to be at least 0: it is never negative, also when the capture time
\* is later than the time of the strike.
C13_HoursToStrikeClamped ==
    response.op = "record" =>
        strikes[Len(strikes)].time_to_strike_hours =
            Max(0, (response.now_min - response.captured_min) \div 60)

C15_RankingBoundedOwnActiveSorted ==
    response.op = "rank" =>
        LET items == response.items
        IN  /\ Len(items) <= response.limit
            /\ \A i \in DOMAIN items :
                  /\ claws[items[i].claw].user_id = response.user
                  /\ claws[items[i].claw].status = "active"
            /\ \A i, j \in DOMAIN items : i < j => items[i].score >= items[j].score

\* u1 has three active claws; a ranking with limit 2 left one of them out and
\* put a claw with a larger id and a larger score in front
C15_Witness ==
    /\ response.op = "rank" /\ response.user = "u1" /\ response.limit = 2
    /\ Cardinality({c \in DOMAIN claws : claws[c].user_id = "u1"
                                          /\ claws[c].status = "active"}) = 3
    /\ Len(response.items) = 2
    /\ response.items[1].claw > response.items[2].claw
    /\ response.items[1].score > response.items[2].score

\* C16: a context-triggered surfacing pass returns at most 3 claws, and each
\* of them scored strictly above 0.7 in that pass; a claw that scored exactly
\* 0.7 is not returned.
C16_AtMostThreeAboveThreshold ==
    response.op \in {"resurface", "surface"} =>
        /\ Len(response.items) <= 3
        /\ \A i \in DOMAIN response.items : response.items[i].score > 70

\* a pass of the engine returned three claws and left out a fourth candidate,
\* and a pass left out a claw whose only match, the morning, scores exactly 0.7
C16_Witness ==
    /\ response.op = "resurface"
    /\ Len(response.items) = 3
    /\ \E c \in DOMAIN claws :
          /\ \A i \in DOMAIN response.items : response.items[i].claw # c
          /\ claws[c].last_surfaced_at = 0
          /\ claws[c].app_trigger = "amazon" \/ claws[c].time_context = "morning"

(***************************************************************************)
(* Properties of merge (checked under SpecMerge)                           *)
(***************************************************************************)
\* the step is the merge request (keep, ids) of u1
MergeStep(keep, ids) == MergeClaws("u1", keep, ids)

\* the step is that request and it succeeded
MergeSucceeds(keep, ids) ==
    /\ response'.op = "merge"
    /\ response'.code = 200
    /\ response'.claw = keep
    /\ response'.merged_ids = ids
    /\ MergeStep(keep, ids)

\* every id of the request names a claw of the caller, no id twice
OwnIds(keep, ids) ==
    /\ find_claw(claws, keep, "u1") # NONE
    /\ \A i \in DOMAIN ids : find_claw(claws, ids[i], "u1") # NONE
    /\ Cardinality(SeqRange(ids)) = Len(ids)

\* C8 as stated: a merge whose keep id is among the merge ids, or whose merge
\* list is empty, is rejected as an invalid operation and writes nothing.
C8_SelfOrEmptyMergeRejected ==
    [][\A keep \in RequestIds, ids \in MergeLists :
          (/\ OwnIds(keep, ids)
           /\ keep \in SeqRange(ids) \/ ids = << >>
           /\ MergeStep(keep, ids))
              => (response'.op = "merge" /\ response'.code = 400 /\ claws' = claws)]_vars

\* the last finished request is the successful merge (keep, ids)
JustMerged(keep, ids) ==
    /\ response.op = "merge"
    /\ response.code = 200
    /\ response.claw = keep
    /\ response.merged_ids = ids

\* C9 as stated: a merge executed a second time with the same arguments
\* leaves every claw exactly as the first execution left it.
C9_MergeIdempotent ==
    [][\A keep \in RequestIds, ids \in MergeLists :
          (JustMerged(keep, ids) /\ MergeSucceeds(keep, ids)) => claws' = claws]_vars

\* C9 amended: a merge executed a second time right after the first leaves
\* the tags, the expiry and the status of every claw as the first execution
\* left them, and appends one more merge marker to the content of keep.
C9_MergeRepeatAppendsMarker ==
    [][\A keep \in RequestIds, ids \in MergeLists :
          (JustMerged(keep, ids) /\ MergeStep(keep, ids)) =>
              /\ response'.code = 200
              /\ claws' = [claws EXCEPT ![keep].content = Append(@, Len(ids))]]_vars

\* C9 witness: claw 2 was merged into claw 1 twice in a row; claw 3 took no
\* part.
C9_Witness ==
    /\ JustMerged(1, <<2>>)
    /\ claws[1].content = <<1, 1>>
    /\ claws[1].tags = {"x", "z"}
    /\ claws[2].status = "archived"

\* the claws of a merge request and the latest of their expiries
Involved(keep, ids) == SeqRange(ids) \cup {keep}

MaxExpiryOf(keep, ids) ==
    CHOOSE e \in {claws[c].expires_at : c \in Involved(keep, ids)} :
        \A c \in Involved(keep, ids) : claws[c].expires_at <= e

\* what C10 says of tags, expiry and the merged claws
MergeEffects(keep, ids) ==
    /\ claws'[keep].tags = UNION {claws[c].tags : c \in Involved(keep, ids)}
    /\ claws'[keep].expires_at = MaxExpiryOf(keep, ids)
    /\ \A c \in SeqRange(ids) : claws'[c].status = "archived"

\* C10 as stated: a successful merge gives keep the union of the tags and the
\* latest expiry of the claws involved, archives the merged claws and leaves
\* keep with status active.
C10_MergeLeavesKeepActive ==
    [][\A keep \in RequestIds, ids \in MergeLists :
          MergeSucceeds(keep, ids) =>
              (MergeEffects(keep, ids) /\ claws'[keep].status = "active")]_vars

\* C10 amended: a successful merge gives keep the union of the tags and the
\* latest expiry of the claws involved, archives the merged claws and leaves
\* the status of keep as it was, so that an active keep remains active.
C10_MergeKeepsStatusOfKeep ==
    [][\A keep \in RequestIds, ids \in MergeLists :
          MergeSucceeds(keep, ids) =>
              (MergeEffects(keep, ids) /\ claws'[keep].status = claws[keep].status)]_vars

\* C10 witness: claws 2 and 3 were merged into the active claw 1, which now
\* has the three tags and the expiry of claw 2.
C10_Witness ==
    /\ JustMerged(1, <<2, 3>>)
    /\ claws[1].tags = {"x", "y", "z"}
    /\ claws[1].expires_at = 200
    /\ claws[1].content = <<2>>
    /\ claws[1].status = "active"
    /\ claws[2].status = "archived"
    /\ claws[3].status = "archived"

====
